---- MODULE Spec2Model ----
(***************************************************************************)
(* Model of xmlrunner.result.XMLTestResult (src/xmlrunner/result.py): the  *)
(* test-run listener that turns unittest callbacks into calls on an        *)
(* XMLContextBuilder.  The builder module itself is not part of src/; its  *)
(* operations are modelled from sections 3 and 4.1 of the specification.   *)
(*                                                                         *)
(* Text is a sequence of tokens; a token is either the line break NL or a  *)
(* fragment that holds no line break.  Names of contexts, tags and keys    *)
(* are plain strings.  An optional text (Python None or a string) is a     *)
(* sequence of length 0 or 1 holding the text.                             *)
(***************************************************************************)
EXTENDS Integers, Sequences, FiniteSets, TLC

\* Bounds of the model.
MaxTests == 2
MaxOutcomes == 1
MaxWrites == 2

NL == "\n"
None == "None"
CounterNames == {"tests", "errors", "failures", "skipped"}

\* The tests the driver may run: two classes, one test with a docstring.
Tests ==
  { [cls |-> "pkg.A", method |-> "test_one", doc |-> None],
    [cls |-> "pkg.B", method |-> "test_two", doc |-> "Checks two"] }

\* The exceptions a test may end with: (exception type name, str(value)).
ExcInfos ==
  { [kind |-> "AssertionError", msg |-> <<"boom", NL, "more">>],
    [kind |-> "AssertionError", msg |-> <<>>],
    [kind |-> "ValueError", msg |-> <<NL, "boom">>] }

Reasons == { <<"not today">> }
Chunk == <<"hello", NL>>
NoErr == [kind |-> None, msg |-> <<>>]
NoTest == [cls |-> None, method |-> None, doc |-> None]

VARIABLES
  pc,           \* position of the driver: "idle", "run", "test", "stopped"
  out_dir,      \* constructor argument: "stream" or a directory path
  stack,        \* builder: the open contexts, innermost last
  root,         \* builder: the closed root context, <<>> until it is closed
  last_suite,   \* self._last_suite
  cur,          \* the test between startTest and stopTest
  stdout_buf,   \* self._stdout_buffer
  stderr_buf,   \* self._stderr_buffer
  base,         \* unittest.TestResult's own tallies
  nwrites,      \* writes to the captured streams so far (bounded)
  raised,       \* the exception that escaped a callback, None if none did
  output,       \* the output target: files opened and texts written
  calls,        \* the builder calls of the last callback, in order
  last,         \* the last callback and its arguments
  pre,          \* the stack and the captured output when the last callback began
  started,      \* the tests started so far, in order
  wrote         \* what each started test printed to the captured streams

vars == <<pc, out_dir, stack, root, last_suite, cur, stdout_buf, stderr_buf,
          base, nwrites, raised, output, calls, last, pre, started, wrote>>

----------------------------------------------------------------------------
(* Python helpers *)

Truthy(s) == s # None /\ s # ""

RECURSIVE Split(_, _, _)
Split(s, i, line) ==
  IF i > Len(s) THEN (IF line = <<>> THEN <<>> ELSE <<line>>)
  ELSE IF s[i] = NL THEN <<line>> \o Split(s, i + 1, <<>>)
  ELSE Split(s, i + 1, Append(line, s[i]))

\* str.splitlines(): the lines of s without their line breaks; a final
\* line break opens no further line, and the empty string has no line.
splitlines(s) == Split(s, 1, <<>>)

\* unittest.TestResult._exc_info_to_string: the traceback formatter.
ExcInfoToString(err, test) ==
  <<"Traceback (most recent call last):", NL, err.kind, ": ">> \o err.msg \o <<NL>>

----------------------------------------------------------------------------
(* XMLContextBuilder.  A builder value B is the record                    *)
(* [stack, root, calls, exc, doc]: the open contexts, the closed root,    *)
(* the calls made so far, the exception raised (None if none; once one is  *)
(* raised the remaining calls of the callback are not made), and the text  *)
(* finish() returned.                                                      *)

TagsOf(stk) == [i \in 1..Len(stk) |-> stk[i].tag]

ZeroCounters == [c \in CounterNames |-> 0]

Logged(B, op, arg) ==
  [B EXCEPT !.calls = Append(@, [op |-> op, arg |-> arg, tags |-> TagsOf(B.stack)])]

Closed(ctx) ==
  [kind |-> "element", tag |-> ctx.tag, name |-> ctx.name,
   counters |-> ctx.counters, children |-> ctx.children]

Leaf(tag, cdata, attrs) ==
  [kind |-> "leaf", tag |-> tag, cdata |-> cdata, attrs |-> attrs]

begin_context(B, tag, name) ==
  IF B.exc # None THEN B
  ELSE [Logged(B, "begin_context", tag) EXCEPT
          !.stack = Append(@, [tag |-> tag, name |-> name,
                               counters |-> ZeroCounters, children |-> <<>>])]

context_tag(B) ==
  IF B.stack = <<>> THEN "" ELSE B.stack[Len(B.stack)].tag

increment_counter(B, name) ==
  IF B.exc # None THEN B
  ELSE [Logged(B, "increment_counter", name) EXCEPT
          !.stack = [i \in 1..Len(@) |->
                       [@[i] EXCEPT !.counters[name] = @ + 1]]]

append(B, tag, cdata, attrs) ==
  IF B.exc # None THEN B
  ELSE IF B.stack = <<>> THEN [Logged(B, "append", tag) EXCEPT !.exc = "UsageError"]
  ELSE [Logged(B, "append", tag) EXCEPT
          !.stack[Len(B.stack)].children = Append(@, Leaf(tag, cdata, attrs))]

append_cdata_section(B, tag, text) ==
  IF B.exc # None THEN B
  ELSE IF B.stack = <<>>
    THEN [Logged(B, "append_cdata_section", tag) EXCEPT !.exc = "UsageError"]
  ELSE [Logged(B, "append_cdata_section", tag) EXCEPT
          !.stack[Len(B.stack)].children = Append(@, Leaf(tag, <<text>>, <<>>))]

end_context(B) ==
  IF B.exc # None THEN B
  ELSE LET n == Len(B.stack)
           L == Logged(B, "end_context", "")
       IN IF n = 0 THEN [L EXCEPT !.exc = "UsageError"]
          ELSE IF n = 1
            THEN [L EXCEPT !.stack = <<>>, !.root = <<Closed(B.stack[1])>>]
          ELSE [L EXCEPT
                  !.stack = [SubSeq(B.stack, 1, n - 1) EXCEPT
                               ![n - 1].children = Append(@, Closed(B.stack[n]))]]

Serialize(node) == [decl |-> "<?xml version=\"1.0\" ?>", root |-> node]

finish(B) ==
  IF B.exc # None THEN B
  ELSE LET L == Logged(B, "finish", "")
       IN IF Len(B.stack) = 1 /\ B.root = <<>>
            THEN [L EXCEPT !.stack = <<>>,
                           !.root = <<Closed(B.stack[1])>>,
                           !.doc = <<Serialize(Closed(B.stack[1]))>>]
          ELSE IF Len(B.stack) = 0 /\ B.root # <<>>
            THEN [L EXCEPT !.doc = <<Serialize(B.root[1])>>]
          ELSE [L EXCEPT !.exc = "UsageError"]

----------------------------------------------------------------------------
(* XMLTestResult: the private helpers *)

\* The builder as a callback finds it.
Builder ==
  [stack |-> stack, root |-> root, calls |-> <<>>, exc |-> None, doc |-> <<>>]

_test_class_name(test) == test.cls

_get_description(test) ==
  IF Truthy(test.doc) THEN test.doc ELSE test.method

_current_suite_finished(ls, test) == ls # _test_class_name(test)

\* Mutant: the previous suite is left open when a new one starts.
_start_new_suite_KeepsOpen(B, ls, test) ==
  [b |-> begin_context(B, "testsuite", _test_class_name(test)),
   ls |-> _test_class_name(test)]

\* Mutant: a context is closed even when no suite was opened before.
_start_new_suite_AlwaysEnds(B, ls, test) ==
  LET B1 == end_context(B)
      key == _test_class_name(test)
  IN [b |-> begin_context(B1, "testsuite", key),
      ls |-> IF B1.exc # None THEN ls ELSE key]

\* Returns the builder and the new value of self._last_suite.
_start_new_suite(B, ls, test) ==
  LET B1 == IF Truthy(ls) THEN end_context(B) ELSE B
      key == _test_class_name(test)
  IN [b |-> begin_context(B1, "testsuite", key),
      ls |-> IF B1.exc # None THEN ls ELSE key]

\* err is <<>> for None, <<e>> for the exc_info e.
_append_error_data(B, test, error_type, err) ==
  IF B.exc # None THEN B
  ELSE IF err = <<>>
    THEN append(B, error_type, <<>>, <<<<"message", <<"Unexpected success">>>>>>)
  ELSE LET lines == splitlines(err[1].msg)
       IN IF lines = <<>> THEN [B EXCEPT !.exc = "IndexError"]
          ELSE append(B, error_type, <<ExcInfoToString(err[1], test)>>,
                      << <<"message", lines[1]>>, <<"type", <<err[1].kind>>>> >>)

_add_generic_failure(B, test, err) ==
  _append_error_data(increment_counter(B, "failures"), test, "failure", err)

\* Returns the builder and the state of the output target.
_generate_report(B, dir, out) ==
  LET opened == IF dir # "stream" THEN [out EXCEPT !.opened = @ + 1] ELSE out
      B1 == finish(B)
  IN [b |-> B1,
      out |-> IF B1.exc # None THEN opened
              ELSE [opened EXCEPT !.written = Append(@, B1.doc[1])]]

----------------------------------------------------------------------------
(* XMLTestResult: what each callback does to the builder *)

\* Mutant: the root is opened under the tag of a suite.
startTestRun_AsSuite(B) == begin_context(B, "testsuite", "TestSuites")

startTestRun(B) == begin_context(B, "testsuites", "TestSuites")

stopTestRun(B, dir, out) == _generate_report(B, dir, out)

\* Mutant: the testcase is opened before the suite is looked after.
startTest_CaseFirst(B, ls, test) ==
  LET B1 == begin_context(B, "testcase", _get_description(test))
  IN IF _current_suite_finished(ls, test)
       THEN _start_new_suite(B1, ls, test)
       ELSE [b |-> B1, ls |-> ls]

\* Returns the builder and the new value of self._last_suite.
startTest(B, ls, test) ==
  LET r == IF context_tag(B) = "testsuites" \/ _current_suite_finished(ls, test)
             THEN _start_new_suite(B, ls, test)
             ELSE [b |-> B, ls |-> ls]
  IN [b |-> begin_context(r.b, "testcase", _get_description(test)), ls |-> r.ls]

\* Mutant: the testcase is never closed.
stopTest_KeepsOpen(B, out_data, err_data) ==
  LET B1 == IF out_data # <<>>
              THEN append_cdata_section(B, "system-out", out_data) ELSE B
      B2 == IF err_data # <<>>
              THEN append_cdata_section(B1, "system-err", err_data) ELSE B1
  IN increment_counter(B2, "tests")

\* Mutant: the captured streams are read after they were reset.
stopTest_ReadsAfterReset(B, out_data, err_data) ==
  end_context(increment_counter(B, "tests"))

\* Mutant: the testcase is closed before 'tests' is incremented.
stopTest_EndsFirst(B, out_data, err_data) ==
  LET B1 == IF out_data # <<>>
              THEN append_cdata_section(B, "system-out", out_data) ELSE B
      B2 == IF err_data # <<>>
              THEN append_cdata_section(B1, "system-err", err_data) ELSE B1
  IN increment_counter(end_context(B2), "tests")

\* Mutant: the captured standard error is flushed before the standard output.
stopTest_ErrFirst(B, out_data, err_data) ==
  LET B1 == IF err_data # <<>>
              THEN append_cdata_section(B, "system-err", err_data) ELSE B
      B2 == IF out_data # <<>>
              THEN append_cdata_section(B1, "system-out", out_data) ELSE B1
  IN end_context(increment_counter(B2, "tests"))

stopTest(B, out_data, err_data) ==
  LET B1 == IF out_data # <<>>
              THEN append_cdata_section(B, "system-out", out_data) ELSE B
      B2 == IF err_data # <<>>
              THEN append_cdata_section(B1, "system-err", err_data) ELSE B1
  IN end_context(increment_counter(B2, "tests"))

\* Mutant: the reason is also passed as the body of the leaf.
addSkip_ReasonAsBody(B, reason) ==
  append(increment_counter(B, "skipped"), "skipped", <<reason>>,
         <<<<"message", reason>>>>)

addSkip(B, reason) ==
  append(increment_counter(B, "skipped"), "skipped", <<>>, <<<<"message", reason>>>>)

\* Mutant: an error is counted as a failure.
addError_CountsFailure(B, test, err) ==
  _append_error_data(increment_counter(B, "failures"), test, "error", <<err>>)

addError(B, test, err) ==
  _append_error_data(increment_counter(B, "errors"), test, "error", <<err>>)

addFailure(B, test, err) == _add_generic_failure(B, test, <<err>>)

\* Mutant: an unexpected success is accounted as an error.
addUnexpectedSuccess_AsError(B, test) ==
  _append_error_data(increment_counter(B, "errors"), test, "error", <<>>)

addUnexpectedSuccess(B, test) == _add_generic_failure(B, test, <<>>)

----------------------------------------------------------------------------
(* The run: the driver's callbacks, one action each *)

\* The state a callback leaves behind.
Leave(B, name, test, err, text) ==
  /\ stack' = B.stack
  /\ root' = B.root
  /\ calls' = B.calls
  /\ raised' = IF B.exc # None THEN B.exc ELSE raised
  /\ last' = [op |-> name, test |-> test, err |-> err, text |-> text]
  /\ pre' = [stack |-> stack, out |-> stdout_buf, err |-> stderr_buf]

Init ==
  /\ pc = "idle"
  /\ out_dir \in {"stream", "reports"}
  /\ stack = <<>>
  /\ root = <<>>
  /\ last_suite = None
  /\ cur = NoTest
  /\ stdout_buf = <<>>
  /\ stderr_buf = <<>>
  /\ base = [testsRun |-> 0, errors |-> 0, failures |-> 0, skipped |-> 0,
             unexpectedSuccesses |-> 0]
  /\ nwrites = 0
  /\ raised = None
  /\ output = [opened |-> 0, written |-> <<>>]
  /\ calls = <<>>
  /\ last = [op |-> "__init__", test |-> NoTest, err |-> NoErr, text |-> <<>>]
  /\ pre = [stack |-> <<>>, out |-> <<>>, err |-> <<>>]
  /\ started = <<>>
  /\ wrote = <<>>

OnStartTestRun ==
  /\ pc = "idle"
  /\ pc' = "run"
  /\ Leave(startTestRun(Builder), "startTestRun", NoTest, NoErr, <<>>)
  /\ UNCHANGED <<out_dir, last_suite, cur, stdout_buf, stderr_buf, base,
                 nwrites, output, started, wrote>>

OnStopTestRun ==
  /\ pc = "run"
  /\ pc' = "stopped"
  /\ LET r == stopTestRun(Builder, out_dir, output)
     IN /\ Leave(r.b, "stopTestRun", NoTest, NoErr, <<>>)
        /\ output' = r.out
  /\ UNCHANGED <<out_dir, last_suite, cur, stdout_buf, stderr_buf, base,
                 nwrites, started, wrote>>

OnStartTest(test) ==
  /\ pc = "run"
  /\ raised = None
  /\ base.testsRun < MaxTests
  /\ pc' = "test"
  /\ base' = [base EXCEPT !.testsRun = @ + 1]
  /\ cur' = test
  /\ started' = Append(started, test)
  /\ wrote' = Append(wrote, [out |-> <<>>, err |-> <<>>])
  /\ LET r == startTest(Builder, last_suite, test)
     IN /\ Leave(r.b, "startTest", test, NoErr, <<>>)
        /\ last_suite' = r.ls
  /\ UNCHANGED <<out_dir, stdout_buf, stderr_buf, nwrites, output>>

OnStopTest ==
  /\ pc = "test"
  /\ pc' = "run"
  /\ Leave(stopTest(Builder, stdout_buf, stderr_buf), "stopTest", cur, NoErr, <<>>)
  /\ stdout_buf' = <<>>
  /\ stderr_buf' = <<>>
  /\ cur' = NoTest
  /\ UNCHANGED <<out_dir, last_suite, base, nwrites, output, started, wrote>>

\* The outcome callbacks come while a test is open and nothing was raised.
Outcome ==
  /\ pc = "test"
  /\ raised = None
  /\ base.errors + base.failures + base.skipped
       + base.unexpectedSuccesses < MaxOutcomes

OnAddSkip(reason) ==
  /\ Outcome
  /\ base' = [base EXCEPT !.skipped = @ + 1]
  /\ Leave(addSkip(Builder, reason), "addSkip", cur, NoErr, reason)
  /\ UNCHANGED <<pc, out_dir, last_suite, cur, stdout_buf, stderr_buf,
                 nwrites, output, started, wrote>>

OnAddError(err) ==
  /\ Outcome
  /\ base' = [base EXCEPT !.errors = @ + 1]
  /\ Leave(addError(Builder, cur, err), "addError", cur, err, <<>>)
  /\ UNCHANGED <<pc, out_dir, last_suite, cur, stdout_buf, stderr_buf,
                 nwrites, output, started, wrote>>

OnAddFailure(err) ==
  /\ Outcome
  /\ base' = [base EXCEPT !.failures = @ + 1]
  /\ Leave(addFailure(Builder, cur, err), "addFailure", cur, err, <<>>)
  /\ UNCHANGED <<pc, out_dir, last_suite, cur, stdout_buf, stderr_buf,
                 nwrites, output, started, wrote>>

OnAddUnexpectedSuccess ==
  /\ Outcome
  /\ base' = [base EXCEPT !.unexpectedSuccesses = @ + 1]
  /\ Leave(addUnexpectedSuccess(Builder, cur), "addUnexpectedSuccess", cur,
           NoErr, <<>>)
  /\ UNCHANGED <<pc, out_dir, last_suite, cur, stdout_buf, stderr_buf,
                 nwrites, output, started, wrote>>

\* The running test prints to the captured standard output or error.
WriteStdout ==
  /\ pc = "test"
  /\ raised = None
  /\ nwrites < MaxWrites
  /\ nwrites' = nwrites + 1
  /\ stdout_buf' = stdout_buf \o Chunk
  /\ wrote' = [wrote EXCEPT ![Len(wrote)].out = @ \o Chunk]
  /\ UNCHANGED <<pc, out_dir, stack, root, last_suite, cur, stderr_buf, base,
                 raised, output, calls, last, pre, started>>

WriteStderr ==
  /\ pc = "test"
  /\ raised = None
  /\ nwrites < MaxWrites
  /\ nwrites' = nwrites + 1
  /\ stderr_buf' = stderr_buf \o Chunk
  /\ wrote' = [wrote EXCEPT ![Len(wrote)].err = @ \o Chunk]
  /\ UNCHANGED <<pc, out_dir, stack, root, last_suite, cur, stdout_buf, base,
                 raised, output, calls, last, pre, started>>

Next ==
  \/ OnStartTestRun
  \/ OnStopTestRun
  \/ \E test \in Tests : OnStartTest(test)
  \/ OnStopTest
  \/ \E reason \in Reasons : OnAddSkip(reason)
  \/ \E err \in ExcInfos : OnAddError(err)
  \/ \E err \in ExcInfos : OnAddFailure(err)
  \/ OnAddUnexpectedSuccess
  \/ WriteStdout
  \/ WriteStderr

Spec == Init /\ [][Next]_vars

----------------------------------------------------------------------------
(* Vocabulary of the properties *)

OutcomeOps == {"addSkip", "addError", "addFailure", "addUnexpectedSuccess"}

CounterOf(op) ==
  CASE op = "addSkip" -> "skipped"
    [] op = "addError" -> "errors"
    [] op \in {"addFailure", "addUnexpectedSuccess"} -> "failures"
    [] op = "stopTest" -> "tests"
    [] OTHER -> None

LeafTagOf(op) ==
  CASE op = "addSkip" -> "skipped"
    [] op = "addError" -> "error"
    [] OTHER -> "failure"

Bump(counters, name) ==
  [c \in CounterNames |-> IF c = name THEN counters[c] + 1 ELSE counters[c]]

Top(stk) == stk[Len(stk)]
LastChild(ctx) == ctx.children[Len(ctx.children)]
CallNames == [i \in 1..Len(calls) |-> <<calls[i].op, calls[i].arg>>]
FinishCalls == Cardinality({i \in 1..Len(calls) : calls[i].op = "finish"})
OpenTags == <<"testsuites", "testsuite", "testcase">>

\* The text of M before its first line break.
FirstLineOf(M) ==
  LET breaks == {i \in 1..Len(M) : M[i] = NL}
      stop == IF breaks = {} THEN Len(M) + 1
              ELSE CHOOSE i \in breaks : \A j \in breaks : i <= j
  IN SubSeq(M, 1, stop - 1)

\* The maximal runs of consecutive tests of one class, in order.
RECURSIVE Groups(_)
Groups(ts) ==
  IF ts = <<>> THEN <<>>
  ELSE LET rest == Groups(Tail(ts))
       IN IF rest # <<>> /\ Head(rest)[1].cls = Head(ts).cls
            THEN <<<<Head(ts)>> \o Head(rest)>> \o Tail(rest)
            ELSE <<<<Head(ts)>>>> \o rest

----------------------------------------------------------------------------
(* Properties *)

\* C1: whenever finish() is called, the listener has closed the open
\* testsuite before it: no 'testsuite' context is on the stack at the call,
\* which holds at most the root.
C1_FinishFindsNoOpenSuite ==
  \A i \in 1..Len(calls) :
    calls[i].op = "finish" =>
      /\ Len(calls[i].tags) <= 1
      /\ \A j \in 1..Len(calls[i].tags) : calls[i].tags[j] # "testsuite"

\* C2: a callback that increments a counter while N contexts are open
\* raises that counter by exactly 1 on each of the N contexts and leaves
\* their other counters alone; stopTest raises 'tests' by 1 on the
\* testcase it closes, on its testsuite and on the root.
C2_CounterRollup ==
  /\ last.op \in OutcomeOps =>
       /\ Len(stack) = Len(pre.stack)
       /\ \A i \in 1..Len(stack) :
            stack[i].counters = Bump(pre.stack[i].counters, CounterOf(last.op))
  /\ last.op = "stopTest" =>
       /\ Len(pre.stack) = 3
       /\ Len(stack) = 2
       /\ LastChild(stack[2]).counters = Bump(pre.stack[3].counters, "tests")
       /\ stack[2].counters = Bump(pre.stack[2].counters, "tests")
       /\ stack[1].counters = Bump(pre.stack[1].counters, "tests")

C2_Witness ==
  /\ last.op = "stopTest"
  /\ Len(stack) = 2
  /\ stack[1].counters["tests"] = 2
  /\ LastChild(stack[2]).counters["tests"] = 1

\* C3: once the run has stopped, the finished document holds one testsuite
\* element per maximal run of consecutive tests of one class, named by that
\* class, with one testcase child per test of the run.
C3_DocumentGroupsSuites ==
  pc = "stopped" =>
    /\ Len(output.written) = 1
    /\ LET suites == output.written[1].root.children
           groups == Groups(started)
       IN /\ Len(suites) = Len(groups)
          /\ \A i \in 1..Len(suites) :
               /\ suites[i].tag = "testsuite"
               /\ suites[i].name = groups[i][1].cls
               /\ Len(suites[i].children) = Len(groups[i])
               /\ \A k \in 1..Len(suites[i].children) :
                    /\ suites[i].children[k].tag = "testcase"
                    /\ suites[i].children[k].name = _get_description(groups[i][k])

\* C4: addError or addFailure with an exception whose string is empty
\* raises nothing and appends the error/failure leaf, with an empty
\* message, to the open testcase.
C4_EmptyMessageIsNoError ==
  (last.op \in {"addError", "addFailure"} /\ last.err.msg = <<>>) =>
    /\ raised = None
    /\ Len(Top(stack).children) = Len(Top(pre.stack).children) + 1
    /\ LastChild(Top(stack)).tag = LeafTagOf(last.op)
    /\ LastChild(Top(stack)).attrs[1] = <<"message", <<>>>>

\* C5: addFailure (addError) with an exception of kind K and message M adds
\* exactly one failure (error) leaf to the open testcase, with message the
\* first line of M, type K and the formatted traceback as CDATA body, and
\* raises the failures (errors) counter of the testsuite and of the root by 1.
C5_FailureLeaf ==
  last.op \in {"addError", "addFailure"} =>
    /\ Len(stack) = 3
    /\ Top(stack).tag = "testcase"
    /\ Top(stack).children =
         Top(pre.stack).children \o
           << Leaf(LeafTagOf(last.op), <<ExcInfoToString(last.err, last.test)>>,
                   << <<"message", FirstLineOf(last.err.msg)>>,
                      <<"type", <<last.err.kind>>>> >>) >>
    /\ stack[2].counters[CounterOf(last.op)]
         = pre.stack[2].counters[CounterOf(last.op)] + 1
    /\ stack[1].counters[CounterOf(last.op)]
         = pre.stack[1].counters[CounterOf(last.op)] + 1

\* C6: stopTest appends system-out iff stdout was captured, then system-err
\* iff stderr was captured, then increments 'tests' with the testcase still
\* open, then closes the testcase: the stack is one shorter and its top is
\* the enclosing testsuite.
C6_StopTestOrder ==
  last.op = "stopTest" =>
    /\ CallNames =
         (IF pre.out # <<>> THEN <<<<"append_cdata_section", "system-out">>>> ELSE <<>>)
         \o (IF pre.err # <<>> THEN <<<<"append_cdata_section", "system-err">>>> ELSE <<>>)
         \o << <<"increment_counter", "tests">>, <<"end_context", "">> >>
    /\ \A i \in 1..Len(calls) : calls[i].tags = OpenTags
    /\ Len(stack) = Len(pre.stack) - 1
    /\ Top(stack).tag = "testsuite"
    /\ LastChild(Top(stack)).tag = "testcase"
    /\ LastChild(Top(stack)).children =
         Top(pre.stack).children
         \o (IF pre.out # <<>> THEN <<Leaf("system-out", <<pre.out>>, <<>>)>> ELSE <<>>)
         \o (IF pre.err # <<>> THEN <<Leaf("system-err", <<pre.err>>, <<>>)>> ELSE <<>>)

C6_Witness ==
  /\ last.op = "stopTest"
  /\ pre.out # <<>>
  /\ pre.err # <<>>
  /\ Len(calls) = 4

\* C7: a run without tests still closes and serializes the root: the one
\* document written is a testsuites element without children whose tests,
\* errors, failures and skipped are all 0.
C7_EmptyRun ==
  (pc = "stopped" /\ started = <<>>) =>
    /\ raised = None
    /\ Len(output.written) = 1
    /\ output.written[1].root.tag = "testsuites"
    /\ output.written[1].root.children = <<>>
    /\ \A c \in CounterNames : output.written[1].root.counters[c] = 0

C7_Witness ==
  /\ pc = "stopped"
  /\ started = <<>>
  /\ FinishCalls = 1
  /\ output.written # <<>>

\* C8: addUnexpectedSuccess raises 'failures' by exactly 1 on the testcase,
\* its testsuite and the root, leaves the other counters alone, and appends
\* one failure leaf with message "Unexpected success", no type attribute
\* and no CDATA body.
C8_UnexpectedSuccess ==
  last.op = "addUnexpectedSuccess" =>
    /\ raised = None
    /\ Len(stack) = 3
    /\ Len(pre.stack) = 3
    /\ \A i \in 1..3 : stack[i].counters = Bump(pre.stack[i].counters, "failures")
    /\ stack[3].children =
         pre.stack[3].children \o
           << Leaf("failure", <<>>, <<<<"message", <<"Unexpected success">>>>>>) >>

C8_Witness ==
  /\ last.op = "addUnexpectedSuccess"
  /\ stack[1].counters["failures"] = 1
  /\ LastChild(Top(stack)).tag = "failure"

\* C9: addSkip raises 'skipped' by exactly 1 on the testcase, its testsuite
\* and the root and appends one skipped leaf with the reason as message and
\* no CDATA body; the other counters, the stack depth and the children
\* appended before stay as they were.
C9_SkipFrame ==
  last.op = "addSkip" =>
    /\ raised = None
    /\ Len(stack) = 3
    /\ Len(pre.stack) = 3
    /\ \A i \in 1..3 :
         /\ stack[i].counters = Bump(pre.stack[i].counters, "skipped")
         /\ stack[i].tag = pre.stack[i].tag
         /\ stack[i].name = pre.stack[i].name
    /\ stack[1].children = pre.stack[1].children
    /\ stack[2].children = pre.stack[2].children
    /\ stack[3].children =
         pre.stack[3].children \o
           << Leaf("skipped", <<>>, <<<<"message", last.text>>>>) >>

C9_Witness ==
  /\ last.op = "addSkip"
  /\ stack[1].counters["skipped"] = 1
  /\ LastChild(Top(stack)).tag = "skipped"
  /\ stack[1].children # <<>>

\* C10: finish() is called exactly once per run, by stopTestRun only, and
\* the output target is written exactly once; no earlier callback
\* serializes or writes.
C10_ExactlyOneReport ==
  /\ pc = "stopped" => (FinishCalls = 1 /\ Len(output.written) = 1)
  /\ pc # "stopped" => (FinishCalls = 0 /\ output.written = <<>>)

\* The root context: open at the bottom of the stack, or closed by finish().
RootCtx == IF stack # <<>> THEN stack[1] ELSE root[1]

SuiteDepths == {i \in 1..Len(stack) : stack[i].tag = "testsuite"}

\* C11: testsuite contexts are never nested: at most one is open, directly
\* above the root; closed testsuites are children of the root only; and a
\* startTest that sees a class other than the open suite's closes that suite
\* before it opens the new one.
C11_SuitesNeverNested ==
  /\ Cardinality(SuiteDepths) <= 1
  /\ SuiteDepths \subseteq {2}
  /\ \A i \in 2..Len(stack) : \A k \in 1..Len(stack[i].children) :
       stack[i].children[k].tag # "testsuite"
  /\ pc # "idle" =>
       \A k \in 1..Len(RootCtx.children) :
         /\ RootCtx.children[k].tag = "testsuite"
         /\ \A m \in 1..Len(RootCtx.children[k].children) :
              RootCtx.children[k].children[m].tag = "testcase"
  /\ (last.op = "startTest" /\ Len(pre.stack) = 2
        /\ pre.stack[2].name # last.test.cls) =>
       /\ CallNames = << <<"end_context", "">>, <<"begin_context", "testsuite">>,
                         <<"begin_context", "testcase">> >>
       /\ calls[1].tags = <<"testsuites", "testsuite">>
       /\ calls[2].tags = <<"testsuites">>
       /\ LastChild(stack[1]) = Closed(pre.stack[2])
       /\ stack[2].name = last.test.cls

C11_Witness ==
  /\ last.op = "startTest"
  /\ Len(pre.stack) = 2
  /\ pre.stack[2].name # last.test.cls
  /\ Len(stack) = 3
  /\ Len(stack[1].children) = 1

\* C12: a closed testsuite never changes under a later callback, and in the
\* finished document each testsuite's 'tests' counter is the number of
\* tests stopped while that suite was open.
C12_ClosedSuitesKeepCounters ==
  /\ (stack # <<>> /\ pre.stack # <<>>) =>
       /\ Len(pre.stack[1].children) <= Len(stack[1].children)
       /\ \A k \in 1..Len(pre.stack[1].children) :
            stack[1].children[k] = pre.stack[1].children[k]
  /\ pc = "stopped" =>
       /\ Len(output.written) = 1
       /\ LET suites == output.written[1].root.children
              groups == Groups(started)
          IN /\ Len(suites) = Len(groups)
             /\ \A i \in 1..Len(suites) :
                  suites[i].counters["tests"] = Len(groups[i])

\* The stopTest callbacks received so far.
StopTestsReceived == Len(started) - (IF pc = "test" THEN 1 ELSE 0)

\* C13: no increment is dropped: in every state of a run the root's 'tests'
\* is the number of stopTest callbacks received, 'errors' the number of
\* addError, 'failures' the number of addFailure plus addUnexpectedSuccess,
\* and 'skipped' the number of addSkip callbacks.
C13_RootCountsCallbacks ==
  pc # "idle" =>
    /\ RootCtx.counters["tests"] = StopTestsReceived
    /\ RootCtx.counters["errors"] = base.errors
    /\ RootCtx.counters["failures"] = base.failures + base.unexpectedSuccesses
    /\ RootCtx.counters["skipped"] = base.skipped

C13_Witness ==
  /\ pc = "run"
  /\ RootCtx.counters["tests"] = 2
  /\ RootCtx.counters["errors"] = 1
  /\ base.errors = 1

\* The child sequences of all testcases of the tree, closed or open.
CaseChildren ==
  UNION { { RootCtx.children[k].children[m].children :
              m \in 1..Len(RootCtx.children[k].children) } :
          k \in 1..Len(RootCtx.children) }
  \cup (IF Len(stack) >= 2
          THEN { stack[2].children[m].children : m \in 1..Len(stack[2].children) }
          ELSE {})
  \cup (IF Len(stack) >= 3 THEN { stack[3].children } ELSE {})

OutputFirst(tag) ==
  CASE tag = "system-out" -> 1 [] tag = "system-err" -> 2 [] OTHER -> 3

OutcomeFirst(tag) ==
  CASE tag = "system-out" -> 2 [] tag = "system-err" -> 3 [] OTHER -> 1

InOrder(ch, rank(_)) ==
  \A i, j \in 1..Len(ch) : i < j => rank(ch[i].tag) <= rank(ch[j].tag)

\* C14 as stated: in each testcase the system-out leaf comes first, then the
\* system-err leaf, and only then any failure, error or skipped leaf.
C14_OutputBeforeOutcome ==
  pc # "idle" => \A ch \in CaseChildren : InOrder(ch, OutputFirst)

\* C14 as amended: in each testcase the failure, error or skipped leaves
\* come first, then the system-out leaf, then the system-err leaf; an open
\* testcase holds no system-out or system-err leaf yet.
C14_OutcomeBeforeOutput ==
  pc # "idle" =>
    /\ \A ch \in CaseChildren : InOrder(ch, OutcomeFirst)
    /\ Len(stack) >= 3 =>
         \A k \in 1..Len(stack[3].children) :
           stack[3].children[k].tag \notin {"system-out", "system-err"}

C14_Witness ==
  /\ pc = "run"
  /\ \E ch \in CaseChildren :
       /\ Len(ch) = 3
       /\ ch[1].tag \in {"failure", "error", "skipped"}
       /\ ch[2].tag = "system-out"
       /\ ch[3].tag = "system-err"

\* C15: between startTestRun and stopTestRun the stack has depth 1 to 3 and
\* its tags are a prefix of (testsuites, testsuite, testcase); its top is a
\* testcase exactly between startTest and stopTest; and every leaf is
\* appended with a testcase on top, none to a testsuite or to the root.
C15_StackShape ==
  /\ pc \in {"run", "test"} =>
       /\ Len(stack) \in 1..3
       /\ \A i \in 1..Len(stack) : stack[i].tag = OpenTags[i]
       /\ (Top(stack).tag = "testcase") <=> (pc = "test")
       /\ \A i \in 1..Len(stack) : i < 3 =>
            \A k \in 1..Len(stack[i].children) : stack[i].children[k].kind # "leaf"
  /\ \A i \in 1..Len(calls) :
       calls[i].op \in {"append", "append_cdata_section"} => calls[i].tags = OpenTags

C15_Witness ==
  /\ pc = "test"
  /\ Len(stack) = 3
  /\ last.op \in OutcomeOps
  /\ \E i \in 1..Len(calls) : calls[i].op = "append"
  /\ Len(stack[1].children) = 1

\* C16: the listener never calls end_context on an empty stack and never
\* pops the root: it calls end_context only in startTest, to close the open
\* testsuite, and in stopTest, to close the testcase opened last.
C16_NoUnderflow ==
  /\ \A i \in 1..Len(calls) :
       calls[i].op = "end_context" =>
         /\ Len(calls[i].tags) >= 2
         /\ last.op \in {"startTest", "stopTest"}
         /\ last.op = "startTest" => calls[i].tags = <<"testsuites", "testsuite">>
         /\ last.op = "stopTest" => calls[i].tags = OpenTags
  /\ last.op \in {"startTest", "stopTest"} => raised # "UsageError"
  /\ pc \in {"run", "test"} => (stack # <<>> /\ stack[1].tag = "testsuites" /\ root = <<>>)
  /\ last.op = "stopTest" =>
       /\ LastChild(Top(stack)).tag = "testcase"
       /\ LastChild(Top(stack)).name = _get_description(last.test)

C16_Witness ==
  /\ last.op = "stopTest"
  /\ Len(stack[1].children) = 1
  /\ \E i \in 1..Len(calls) : calls[i].op = "end_context"

\* All testsuite contexts of the run: the closed ones, then the open one.
SuitesOfRun ==
  LET closed == SelectSeq(RootCtx.children, LAMBDA n : n.tag = "testsuite")
      open == SelectSeq(stack, LAMBDA x : x.tag = "testsuite")
  IN [i \in 1..(Len(closed) + Len(open)) |->
        IF i <= Len(closed) THEN closed[i].counters
        ELSE open[i - Len(closed)].counters]

RECURSIVE SumOf(_, _)
SumOf(cs, name) ==
  IF cs = <<>> THEN 0 ELSE cs[1][name] + SumOf(Tail(cs), name)

\* C17: between callbacks, each counter of the root equals the sum of that
\* counter over all testsuite contexts of the run, closed or open.
C17_RootIsSumOfSuites ==
  pc # "idle" =>
    \A c \in CounterNames : RootCtx.counters[c] = SumOf(SuitesOfRun, c)

C17_Witness ==
  /\ pc = "run"
  /\ Len(SuitesOfRun) = 2
  /\ RootCtx.counters["tests"] = 2
  /\ SuitesOfRun[1]["tests"] = 1
  /\ \E c \in CounterNames \ {"tests"} : RootCtx.counters[c] = 1

\* The leaves of one tag among the children of the testcases.
RECURSIVE LeavesIn(_, _)
LeavesIn(nodes, tag) ==
  IF nodes = <<>> THEN 0
  ELSE (IF nodes[1].kind = "leaf"
          THEN (IF nodes[1].tag = tag THEN 1 ELSE 0)
          ELSE LeavesIn(nodes[1].children, tag))
       + LeavesIn(Tail(nodes), tag)

RECURSIVE OpenLeaves(_, _)
OpenLeaves(stk, tag) ==
  IF stk = <<>> THEN 0
  ELSE LeavesIn(stk[1].children, tag) + OpenLeaves(Tail(stk), tag)

LeavesSoFar(tag) ==
  IF stack # <<>> THEN OpenLeaves(stack, tag) ELSE LeavesIn(root[1].children, tag)

\* C18: after every outcome callback, returned or aborted, the root's
\* 'errors' is the number of error leaves appended so far, 'failures' the
\* number of failure leaves and 'skipped' the number of skipped leaves.
C18_CountersMatchLeaves ==
  pc # "idle" =>
    /\ RootCtx.counters["errors"] = LeavesSoFar("error")
    /\ RootCtx.counters["failures"] = LeavesSoFar("failure")
    /\ RootCtx.counters["skipped"] = LeavesSoFar("skipped")

\* The testcases of the run in the order they were started.
RECURSIVE Flatten(_)
Flatten(suites) ==
  IF suites = <<>> THEN <<>>
  ELSE [i \in 1..Len(suites[1].children) |-> suites[1].children[i].children]
       \o Flatten(Tail(suites))

ClosedCases ==
  Flatten(RootCtx.children)
  \o (IF Len(stack) >= 2
        THEN [i \in 1..Len(stack[2].children) |-> stack[2].children[i].children]
        ELSE <<>>)

OutputLeaves(ch) ==
  SelectSeq(ch, LAMBDA n : n.tag \in {"system-out", "system-err"})

ExpectedOutput(w) ==
  (IF w.out # <<>> THEN <<Leaf("system-out", <<w.out>>, <<>>)>> ELSE <<>>)
  \o (IF w.err # <<>> THEN <<Leaf("system-err", <<w.err>>, <<>>)>> ELSE <<>>)

\* C19: the system-out and system-err leaves of each stopped test hold
\* exactly what that test printed, nothing of another test and nothing
\* missing; the captured streams are empty again once a test has stopped.
C19_CapturedOutputIsolation ==
  pc # "idle" =>
    /\ Len(ClosedCases) = StopTestsReceived
    /\ \A k \in 1..Len(ClosedCases) :
         OutputLeaves(ClosedCases[k]) = ExpectedOutput(wrote[k])
    /\ pc # "test" => (stdout_buf = <<>> /\ stderr_buf = <<>>)
    /\ pc = "test" =>
         (stdout_buf = wrote[Len(wrote)].out /\ stderr_buf = wrote[Len(wrote)].err)

C19_Witness ==
  /\ pc = "run"
  /\ Len(ClosedCases) = 2
  /\ wrote[1].out # <<>>
  /\ wrote[1].err = <<>>
  /\ wrote[2].out = <<>>
  /\ wrote[2].err # <<>>

====
